---------------------------- MODULE Spec2Model ----------------------------
(***************************************************************************)
(* Model of the order-cleaning pipeline of scripts/load_clean.py,          *)
(* scripts/analysis.py and scripts/dashboard.py.                           *)
(*                                                                         *)
(* Text is a sequence of one-character strings; the euro sign and the cent *)
(* sign are written "EURO" and "CENT".  Money is an integer: an extracted  *)
(* amount is in units of 10^-FracDigits, a conversion rate is in           *)
(* hundredths, a USD amount is in units of 10^-(FracDigits+2).  The        *)
(* missing value (NaN / None) of a price is the integer NaN.               *)
(***************************************************************************)
EXTENDS Integers, Sequences, FiniteSets, TLC

VARIABLES
    folder,         \* the dataset folder handed to an entry point
    called,         \* which entry point has run on the folder ("none" before)
    loadResult,     \* outcome of load_and_clean(folder)
    processResult,  \* outcome of process_dataset(folder)
    screen,         \* what render_dataset put on the page
    raw,            \* a raw unit_price text handed to a price normalizer
    priceResult     \* outcomes of the price normalizers on raw

vars == <<folder, called, loadResult, processResult, screen, raw, priceResult>>

-----------------------------------------------------------------------------
(* Generic helpers                                                         *)

NULL == "NULL"

\* F applied to the value of e: a local variable assigned once
With(e, F(_)) == CHOOSE r \in {F(x) : x \in {e}} : TRUE

\* F applied to every row of q
Map(q, F(_)) == [i \in 1..Len(q) |-> F(q[i])]

NaN == -1

FracDigits == 3

RECURSIVE Pow10(_)
Pow10(n) == IF n = 0 THEN 1 ELSE 10 * Pow10(n - 1)

Digits == {"0", "1", "2", "3", "4", "5", "6", "7", "8", "9"}

DigitVal(c) ==
    CASE c = "0" -> 0 [] c = "1" -> 1 [] c = "2" -> 2 [] c = "3" -> 3
      [] c = "4" -> 4 [] c = "5" -> 5 [] c = "6" -> 6 [] c = "7" -> 7
      [] c = "8" -> 8 [] c = "9" -> 9

\* str.lower() on the characters the model uses
LowerChar(c) ==
    CASE c = "U" -> "u" [] c = "S" -> "s" [] c = "D" -> "d"
      [] c = "E" -> "e" [] c = "R" -> "r"
      [] OTHER -> c

Lower(s) == [i \in 1..Len(s) |-> LowerChar(s[i])]

\* pat occurs in s at position i
MatchAt(s, pat, i) ==
    /\ i >= 1
    /\ i + Len(pat) - 1 <= Len(s)
    /\ \A k \in 1..Len(pat) : s[i + k - 1] = pat[k]

\* Python's "pat in s"
Contains(s, pat) == \E i \in 1..Len(s) : MatchAt(s, pat, i)

\* Python's s.replace(pat, rep): leftmost non-overlapping occurrences
RECURSIVE Replace(_, _, _)
Replace(s, pat, rep) ==
    IF s = <<>> THEN <<>>
    ELSE IF MatchAt(s, pat, 1)
         THEN rep \o Replace(SubSeq(s, Len(pat) + 1, Len(s)), pat, rep)
         ELSE <<s[1]>> \o Replace(Tail(s), pat, rep)

\* Python's s.strip()
RECURSIVE LStrip(_)
LStrip(s) == IF s # <<>> /\ s[1] = " " THEN LStrip(Tail(s)) ELSE s

RECURSIVE RStrip(_)
RStrip(s) ==
    IF s # <<>> /\ s[Len(s)] = " " THEN RStrip(SubSeq(s, 1, Len(s) - 1)) ELSE s

Strip(s) == RStrip(LStrip(s))

\* length of the maximal run of digits of s that starts at position i
RECURSIVE DigitRun(_, _)
DigitRun(s, i) ==
    IF i <= Len(s) /\ s[i] \in Digits THEN 1 + DigitRun(s, i + 1) ELSE 0

\* int() of a digit string
RECURSIVE DigitsToInt(_)
DigitsToInt(d) ==
    IF d = <<>> THEN 0
    ELSE 10 * DigitsToInt(SubSeq(d, 1, Len(d) - 1)) + DigitVal(d[Len(d)])

\* float() of "ddd" or "ddd.ddd", in units of 10^-FracDigits; a text with
\* more than one dot is not a float (ValueError), reported as NaN
ToFloat(t) ==
    With({i \in 1..Len(t) : t[i] = "."}, LAMBDA dots :
      IF dots = {} THEN DigitsToInt(t) * Pow10(FracDigits)
      ELSE IF Cardinality(dots) > 1 THEN NaN
      ELSE With(CHOOSE i \in dots : TRUE, LAMBDA p :
             With(SubSeq(t, p + 1, IF Len(t) - p < FracDigits THEN Len(t) ELSE p + FracDigits),
                  LAMBDA fk :
                    DigitsToInt(SubSeq(t, 1, p - 1)) * Pow10(FracDigits)
                      + DigitsToInt(fk) * Pow10(FracDigits - Len(fk)))))


-----------------------------------------------------------------------------
(* Price normalizers                                                       *)

\* a missing unit_price cell (pd.isna)
NullText == <<NULL>>

EUR_TO_USD == 108

analysis_EUR_TO_USD == 110

\* the first match of a number at or after position i: <<start, length>>,
\* or <<0, 0>> when there is none; seps are the characters accepted between
\* the integer and the fractional digits
RECURSIVE NumberFrom(_, _, _)
NumberFrom(s, i, seps) ==
    IF i > Len(s) THEN <<0, 0>>
    ELSE IF s[i] \in Digits
         THEN LET n == DigitRun(s, i)
                  f == IF i + n <= Len(s) /\ s[i + n] \in seps
                       THEN DigitRun(s, i + n + 1) ELSE 0
              IN  <<i, IF f > 0 THEN n + 1 + f ELSE n>>
         ELSE NumberFrom(s, i + 1, seps)

\* re.findall(r"\d+(?:[.,]\d+)?", s): the successive matches, left to right
RECURSIVE FindAll(_, _)
FindAll(s, i) ==
    LET m == NumberFrom(s, i, {".", ","})
    IN  IF m[1] = 0 THEN <<>>
        ELSE <<SubSeq(s, m[1], m[1] + m[2] - 1)>> \o FindAll(s, m[1] + m[2])

price_is_usd(s) == Contains(Lower(s), <<"u", "s", "d">>) \/ Contains(s, <<"$">>)

price_is_eur(s) == Contains(Lower(s), <<"e", "u", "r">>) \/ Contains(s, <<"EURO">>)

\* the currency price_to_usd converts from
price_currency(s) ==
    IF price_is_usd(s) THEN "USD" ELSE "EUR"

price_cleaned(s) ==
    LET c1 == Replace(s, <<"U", "S", "D">>, <<>>)
        c2 == Replace(c1, <<"u", "s", "d">>, <<>>)
        c3 == Replace(c2, <<"E", "U", "R">>, <<>>)
        c4 == Replace(c3, <<"e", "u", "r">>, <<>>)
        c5 == Replace(c4, <<"$">>, <<>>)
        c6 == Replace(c5, <<"EURO">>, <<>>)
        c7 == Replace(c6, <<"CENT">>, <<".">>)
    IN  Replace(c7, <<",">>, <<".">>)

\* price_amount, but a text without a number is worth zero
price_amount_zero(value) ==
    IF value = NullText \/ Strip(value) = <<>> THEN NaN
    ELSE With(price_cleaned(Strip(value)), LAMBDA cleaned :
           With(NumberFrom(cleaned, 1, {"."}), LAMBDA m :
             IF m[1] = 0 THEN 0
             ELSE ToFloat(SubSeq(cleaned, m[1], m[1] + m[2] - 1))))

\* the amount price_to_usd extracts, before conversion (NaN when none)
price_amount(value) ==
    IF value = NullText \/ Strip(value) = <<>> THEN NaN
    ELSE With(price_cleaned(Strip(value)), LAMBDA cleaned :
           With(NumberFrom(cleaned, 1, {"."}), LAMBDA m :
             IF m[1] = 0 THEN NaN
             ELSE ToFloat(SubSeq(cleaned, m[1], m[1] + m[2] - 1))))

price_to_usd(value) ==
    With(price_amount(value), LAMBDA amount :
      IF amount = NaN THEN NaN
      ELSE IF price_currency(Strip(value)) = "USD" THEN amount * 100
      ELSE amount * EUR_TO_USD)

\* the currency _parse_price_to_usd converts from
parse_price_currency(s) ==
    LET lower == Lower(s)
    IN  IF Contains(lower, <<"e", "u", "r">>) \/ Contains(lower, <<"EURO">>)
        THEN "EUR"
        ELSE IF Contains(lower, <<"u", "s", "d">>) \/ Contains(lower, <<"$">>)
        THEN "USD"
        ELSE "USD"

\* the amount _parse_price_to_usd extracts, before conversion (NaN when none)
parse_price_amount(value) ==
    IF value = NullText \/ Strip(value) = <<>> THEN NaN
    ELSE With(FindAll(Replace(Strip(value), <<"CENT">>, <<".">>), 1), LAMBDA nums :
           IF nums = <<>> THEN NaN
           ELSE With(IF Len(nums) = 1 THEN nums[1] ELSE nums[1] \o <<".">> \o nums[2],
                     LAMBDA num_str : ToFloat(Replace(num_str, <<",">>, <<".">>))))

_parse_price_to_usd(value) ==
    With(parse_price_amount(value), LAMBDA amount :
      IF amount = NaN THEN NaN
      ELSE IF parse_price_currency(Strip(value)) = "EUR"
      THEN amount * analysis_EUR_TO_USD
      ELSE amount * 100)

\* Raw price texts: an optional currency marker, a number text, an optional
\* currency marker.
Markers ==
    { <<>>, <<"$">>, <<"EURO">>, <<"U", "S", "D", " ">>, <<" ", "u", "s", "d">>,
      <<"E", "U", "R">>, <<" ", "E", "u", "r">> }

NumberTexts ==
    { <<"4", "9", ".", "5", "0">>, <<"6", "7", ".", "0">>, <<"4", "3", "CENT", "7", "5">>,
      <<"1", "2">>, <<"2", ",", "5">>, <<"n", "/", "a">>, <<>>,
      <<"1", ",", "2", "3", "4", ".", "5", "6">>,
      <<"1", ".", "2", "3", "4", ".", "5", "6">> }

PriceTexts == {p \o n \o q : p \in Markers, n \in NumberTexts, q \in Markers}

-----------------------------------------------------------------------------
(* Text order, sequences and sorting                                       *)

\* code-point order of the characters the model uses
CharOrder ==
    <<" ", "&", ",", "0", "1", "2", "3", "4", "5", "6", "7", "8", "9", ";",
      "@", "A", "B", "C", "a", "b", "c", "d", "n", "x">>

CharRank(c) == CHOOSE i \in 1..Len(CharOrder) : CharOrder[i] = c

\* Python's s < t on strings
RECURSIVE TextLess(_, _)
TextLess(s, t) ==
    IF t = <<>> THEN FALSE
    ELSE IF s = <<>> THEN TRUE
    ELSE IF s[1] = t[1] THEN TextLess(Tail(s), Tail(t))
    ELSE CharRank(s[1]) < CharRank(t[1])

\* str() of a non-negative integer
RECURSIVE Str(_)
Str(n) ==
    LET d == CharOrder[4 + (n % 10)]
    IN  IF n < 10 THEN <<d>> ELSE Str(n \div 10) \o <<d>>

Range(q) == {q[i] : i \in 1..Len(q)}

\* Series.unique(): the distinct values in order of first appearance
RECURSIVE Unique(_)
Unique(q) ==
    IF q = <<>> THEN <<>>
    ELSE With(Unique(SubSeq(q, 1, Len(q) - 1)), LAMBDA init :
           IF q[Len(q)] \in Range(init) THEN init ELSE Append(init, q[Len(q)]))

\* the texts of S in ascending order (the group keys of a groupby)
RECURSIVE SortedTexts(_)
SortedTexts(S) ==
    IF S = {} THEN <<>>
    ELSE With(CHOOSE x \in S : \A y \in S \ {x} : TextLess(x, y), LAMBDA m :
           With(S \ {m}, LAMBDA rest : <<m>> \o SortedTexts(rest)))

\* the integers of S in ascending order
RECURSIVE SortedInts(_)
SortedInts(S) ==
    IF S = {} THEN <<>>
    ELSE With(CHOOSE x \in S : \A y \in S : x <= y, LAMBDA m :
           With(S \ {m}, LAMBDA rest : <<m>> \o SortedInts(rest)))

\* sort_values("paid_price", ascending=False) of a small frame: rows of
\* equal paid_price keep their order
RECURSIVE InsertDesc(_, _)
InsertDesc(sorted, x) ==
    IF sorted = <<>> THEN <<x>>
    ELSE IF sorted[1].paid_price >= x.paid_price
         THEN <<sorted[1]>> \o InsertDesc(Tail(sorted), x)
         ELSE <<x>> \o sorted

RECURSIVE SortDesc(_)
SortDesc(q) ==
    IF q = <<>> THEN <<>>
    ELSE With(SortDesc(SubSeq(q, 1, Len(q) - 1)), LAMBDA sorted :
           InsertDesc(sorted, q[Len(q)]))

\* DataFrame.head(n)
Head_n(q, n) == SubSeq(q, 1, IF Len(q) < n THEN Len(q) ELSE n)

\* Series.sum() of paid_price, missing values skipped
RECURSIVE SumSkipNa(_)
SumSkipNa(q) ==
    IF q = <<>> THEN 0
    ELSE (IF q[1].paid_price = NaN THEN 0 ELSE q[1].paid_price) + SumSkipNa(Tail(q))

\* Series.sum(min_count=1): missing when the group has no valid value
SumMinCount1(q) ==
    IF \A i \in 1..Len(q) : q[i].paid_price = NaN THEN NaN ELSE SumSkipNa(q)

-----------------------------------------------------------------------------
(* Timestamps and quantities                                               *)

\* pd.NaT; an instant is a calendar date (a positive day number) and a time
NaT == [date |-> 0, time |-> "NaT"]

\* A raw timestamp cell: missing, or a text.  pandas' parser is outside the
\* repository, so a text is given by what pd.to_datetime makes of its cleaned
\* form: its result without dayfirst and its result with dayfirst=True, NaT
\* standing for "raises".
to_datetime(ts, dayfirst) == IF dayfirst THEN ts.dayfirst ELSE ts.strict

\* parse_timestamp, but with the day-first parse tried first
parse_timestamp_dayfirst_first(ts) ==
    IF ts.isna THEN NaT
    ELSE IF to_datetime(ts, TRUE) # NaT THEN to_datetime(ts, TRUE)
    ELSE IF to_datetime(ts, FALSE) # NaT THEN to_datetime(ts, FALSE)
    ELSE NaT

parse_timestamp(ts) ==
    IF ts.isna THEN NaT
    ELSE IF to_datetime(ts, FALSE) # NaT THEN to_datetime(ts, FALSE)
    ELSE IF to_datetime(ts, TRUE) # NaT THEN to_datetime(ts, TRUE)
    ELSE NaT

\* pd.to_numeric(errors="coerce") accepts this quantity text
IsNumeric(t) ==
    /\ t # NullText
    /\ t # <<>>
    /\ IF t[1] = "-" THEN Len(t) > 1 /\ DigitRun(t, 2) = Len(t) - 1
       ELSE DigitRun(t, 1) = Len(t)

\* pd.to_numeric(quantity, errors="coerce").fillna(0).astype(int)
quantity_clean(t) ==
    IF ~IsNumeric(t) THEN 0
    ELSE IF t[1] = "-" THEN 0 - DigitsToInt(Tail(t))
    ELSE DigitsToInt(t)

-----------------------------------------------------------------------------
(* load_books                                                              *)

\* books["authors"].astype(str).str.strip().replace({"nan": np.nan})
author_set(authors) ==
    IF authors = NullText \/ Strip(authors) = <<"n", "a", "n">> THEN NullText
    ELSE Strip(authors)

\* the books frame: its columns and its rows with the derived author_set
load_books(f) ==
    IF f.books.file = "none" THEN [columns |-> {}, rows |-> <<>>]
    ELSE [columns |-> (IF f.books.idCol THEN {"id"} ELSE {})
                        \cup (IF f.books.authorCol \in {"author", "authors"}
                              THEN {f.books.authorCol, "authors", "author_set"} ELSE {}),
          rows |-> Map(f.books.rows, LAMBDA b :
                     [id |-> b.id, author_set |-> author_set(b.authors)])]

-----------------------------------------------------------------------------
(* load_and_clean                                                          *)

required_cols == {"id", "user_id", "book_id", "quantity", "unit_price", "timestamp"}

\* the email the users frame holds for user_id (missing when none)
email_of(users, user_id) ==
    IF \E i \in 1..Len(users) : users[i].id = user_id
    THEN users[CHOOSE i \in 1..Len(users) : users[i].id = user_id].email
    ELSE NullText

\* the canonical buyer key of one order
user_key_of(f, user_id) ==
    IF f.emailCol /\ email_of(f.users, user_id) # NullText
    THEN email_of(f.users, user_id)
    ELSE Str(user_id)

\* one order with its parsed timestamp
parse_order(o) ==
    [id |-> o.id, user_id |-> o.user_id, book_id |-> o.book_id, quantity |-> o.quantity,
     unit_price |-> o.unit_price, timestamp |-> parse_timestamp(o.timestamp)]

\* one kept order with its date, quantity, price, paid amount and buyer key
clean_order(f, r) ==
    With(price_to_usd(r.unit_price), LAMBDA u :
      With(quantity_clean(r.quantity), LAMBDA q :
        [id |-> r.id,
         user_id |-> r.user_id,
         book_id |-> r.book_id,
         unit_price |-> r.unit_price,
         timestamp |-> r.timestamp,
         date |-> r.timestamp.date,
         quantity |-> q,
         unit_price_usd |-> u,
         paid_price |-> IF u = NaN THEN NaN ELSE q * u,
         user_key |-> user_key_of(f, r.user_id)]))

\* the orders frame after timestamp parsing, the NaT filter, and the date,
\* quantity, price, paid_price and user_key columns
clean_orders(f) ==
    With(Map(f.orders, parse_order), LAMBDA parsed :
      With(SelectSeq(parsed, LAMBDA r : r.timestamp # NaT), LAMBDA kept :
        Map(kept, LAMBDA r : clean_order(f, r))))

\* merge(validate="m:1") finds a user id twice in the users frame
merge_not_m1(f) ==
    /\ f.emailCol
    /\ \E i, j \in 1..Len(f.users) : i # j /\ f.users[i].id = f.users[j].id

\* the row of one date in groupby("date")["paid_price"].sum(min_count=1)
day_row(orders, d) ==
    [date |-> d,
     paid_price |-> SumMinCount1(SelectSeq(orders, LAMBDA r : r.date = d))]

\* top5_days_of, but with the dates without a valid paid amount kept at zero
top5_days_zero_filled(orders) ==
    With(SortedInts({orders[i].date : i \in 1..Len(orders)}), LAMBDA dates :
      With(Map(dates, LAMBDA d :
             [date |-> d,
              paid_price |-> SumSkipNa(SelectSeq(orders, LAMBDA r : r.date = d))]),
           LAMBDA grouped : Head_n(SortDesc(grouped), 5)))

\* groupby("date")["paid_price"].sum(min_count=1).dropna()
\*     .sort_values(ascending=False).head(5)
top5_days_of(orders) ==
    With(SortedInts({orders[i].date : i \in 1..Len(orders)}), LAMBDA dates :
      With(Map(dates, LAMBDA d : day_row(orders, d)), LAMBDA grouped :
        With(SelectSeq(grouped, LAMBDA g : g.paid_price # NaN), LAMBDA valid :
          Head_n(SortDesc(valid), 5))))

\* dropna(["paid_price"]).groupby("user_key").sum().sort_values(ascending=False)
buyer_rev_of(orders) ==
    With(SelectSeq(orders, LAMBDA r : r.paid_price # NaN), LAMBDA valid :
      With(SortedTexts({valid[i].user_key : i \in 1..Len(valid)}), LAMBDA keys :
        With(Map(keys, LAMBDA k :
               [user_key |-> k,
                paid_price |-> SumSkipNa(SelectSeq(valid, LAMBDA r : r.user_key = k))]),
             LAMBDA grouped : SortDesc(grouped))))

\* .loc[user_key == top_key, "user_id"].astype(str).unique().tolist()
aliases_of(orders, top_key) ==
    With(SelectSeq(orders, LAMBDA r : r.user_key = top_key), LAMBDA mine :
      With(Map(mine, LAMBDA r : Str(r.user_id)), LAMBDA ids : Unique(ids)))

NoBuyer == [user_key |-> NullText, total_revenue |-> NaN, aliases |-> <<>>]

best_buyer_of(orders) ==
    With(buyer_rev_of(orders), LAMBDA buyer_rev :
      IF buyer_rev = <<>> THEN NoBuyer
      ELSE [user_key |-> buyer_rev[1].user_key,
            total_revenue |-> buyer_rev[1].paid_price,
            aliases |-> aliases_of(orders, buyer_rev[1].user_key)])

\* the rows one order gets in orders.merge(books, on="book_id", how="left"):
\* one per matching book, or one with a missing author_set
merged_rows(o, books) ==
    With(SelectSeq(books, LAMBDA b : b.id = o.book_id), LAMBDA hits :
      IF hits = <<>>
      THEN <<[author_set |-> NullText, paid_price |-> o.paid_price]>>
      ELSE Map(hits, LAMBDA b : [author_set |-> b.author_set, paid_price |-> o.paid_price]))

RECURSIVE merge_books(_, _)
merge_books(orders, books) ==
    IF orders = <<>> THEN <<>>
    ELSE With(merge_books(Tail(orders), books), LAMBDA rest :
           merged_rows(orders[1], books) \o rest)

\* dropna(["author_set", "paid_price"]).groupby("author_set").sum()
\*     .sort_values(ascending=False)
author_rev_of(orders, books) ==
    With(merge_books(orders, books), LAMBDA ob :
      With(SelectSeq(ob, LAMBDA r : r.author_set # NullText /\ r.paid_price # NaN),
           LAMBDA valid :
        With(SortedTexts({valid[i].author_set : i \in 1..Len(valid)}), LAMBDA labels :
          With(Map(labels, LAMBDA l :
                 [author_set |-> l,
                  paid_price |-> SumSkipNa(SelectSeq(valid, LAMBDA r : r.author_set = l))]),
               LAMBDA grouped : SortDesc(grouped)))))

\* books["author_set"].dropna().nunique()
unique_author_sets_of(books) ==
    Cardinality({books[i].author_set : i \in 1..Len(books)} \ {NullText})

Raised(exc) == [raised |-> exc, type |-> "none"]

\* the dict load_and_clean returns; unique_author_sets is -1 and
\* most_popular_authors is empty for None
load_result(orders, books) ==
    [raised |-> "none",
     type |-> "dict",
     orders |-> orders,
     top5_days |-> top5_days_of(orders),
     unique_users |-> Cardinality({orders[i].user_key : i \in 1..Len(orders)}),
     has_author_info |->
         books.rows # <<>> /\ "author_set" \in books.columns /\ "id" \in books.columns,
     unique_author_sets |->
         IF books.rows # <<>> /\ "author_set" \in books.columns
         THEN unique_author_sets_of(books.rows) ELSE -1,
     most_popular_authors |->
         IF books.rows # <<>> /\ "author_set" \in books.columns /\ "id" \in books.columns
         THEN Head_n(author_rev_of(orders, books.rows), 3) ELSE <<>>,
     best_buyer |-> best_buyer_of(orders)]

\* load_and_clean(root): the exception it raises, or the dict it returns
load_and_clean(f) ==
    IF ~f.ordersFile THEN Raised("FileNotFoundError")
    ELSE IF ~f.usersFile THEN Raised("FileNotFoundError")
    ELSE IF required_cols \ f.ordersCols # {} THEN Raised("KeyError")
    ELSE IF merge_not_m1(f) THEN Raised("MergeError")
    ELSE With(clean_orders(f), LAMBDA orders :
           With(load_books(f), LAMBDA books : load_result(orders, books)))

-----------------------------------------------------------------------------
(* analysis.py                                                             *)

\* re.split(r",|&| and ", s): the parts between the separators
RECURSIVE SplitAuthors(_, _)
SplitAuthors(s, cur) ==
    IF s = <<>> THEN <<cur>>
    ELSE IF s[1] \in {",", "&"}
         THEN <<cur>> \o SplitAuthors(Tail(s), <<>>)
    ELSE IF MatchAt(s, <<" ", "a", "n", "d", " ">>, 1)
         THEN <<cur>> \o SplitAuthors(SubSeq(s, 6, Len(s)), <<>>)
    ELSE SplitAuthors(Tail(s), Append(cur, s[1]))

\* "; ".join(names)
RECURSIVE JoinNames(_)
JoinNames(names) ==
    IF names = <<>> THEN <<>>
    ELSE IF Len(names) = 1 THEN names[1]
    ELSE names[1] \o <<";", " ">> \o JoinNames(Tail(names))

\* the individual names of a raw author text
author_names(author_str) ==
    With(SplitAuthors(Strip(author_str), <<>>), LAMBDA parts :
      {Strip(parts[i]) : i \in 1..Len(parts)} \ {<<>>})

_normalize_authors(author_str) ==
    IF author_str = NullText \/ Strip(author_str) = <<>> THEN NullText
    ELSE With(author_names(author_str), LAMBDA names :
           IF names = {} THEN NullText ELSE JoinNames(SortedTexts(names)))

\* _attach_books_authors: the frame gets an authors_set column only from a
\* non-empty books.yaml that has an id and an author column
attaches_authors(f) ==
    /\ f.books.file = "books.yaml"
    /\ f.books.rows # <<>>
    /\ f.books.idCol
    /\ f.books.authorCol = "author"

\* step 3 of process_dataset on one row: the price parsed again, and a
\* missing paid amount filled with zero
reprice(o) ==
    With(_parse_price_to_usd(o.unit_price), LAMBDA u :
      [user_id |-> o.user_id, user_key |-> o.user_key, book_id |-> o.book_id,
       date |-> o.date, paid_price |-> IF u = NaN THEN 0 ELSE u * o.quantity])

attached_rows(o, books) ==
    With(SelectSeq(books, LAMBDA b : b.id = o.book_id), LAMBDA hits :
      IF hits = <<>>
      THEN <<[user_id |-> o.user_id, user_key |-> o.user_key, date |-> o.date,
              paid_price |-> o.paid_price, authors_set |-> NullText]>>
      ELSE Map(hits, LAMBDA b :
             [user_id |-> o.user_id, user_key |-> o.user_key, date |-> o.date,
              paid_price |-> o.paid_price,
              authors_set |-> _normalize_authors(b.authors)]))

RECURSIVE attach_rows(_, _)
attach_rows(df, books) ==
    IF df = <<>> THEN <<>>
    ELSE With(attach_rows(Tail(df), books), LAMBDA rest :
           attached_rows(df[1], books) \o rest)

\* groupby(col)["paid_price"].sum(min_count=1).fillna(0) for the given keys
group_sums(df, keys, col) ==
    Map(keys, LAMBDA k :
      [key |-> k,
       paid_price |-> SumSkipNa(SelectSeq(df, LAMBDA r : r[col] = k))])

\* steps 5 to 9 of process_dataset on the frame df
metrics_of(f, df) ==
    With(SortedTexts({df[i].user_key : i \in 1..Len(df)}), LAMBDA keys :
      With(SortedTexts({df[i].authors_set : i \in 1..Len(df)} \ {NullText}), LAMBDA labels :
        With(SortDesc(group_sums(df, keys, "user_key")), LAMBDA user_rev :
          [raised |-> "none",
           type |-> "dict",
           top5_days |->
               Head_n(SortDesc(group_sums(
                   df, SortedInts({df[i].date : i \in 1..Len(df)}), "date")), 5),
           unique_users |-> Len(keys),
           unique_author_sets |-> IF attaches_authors(f) THEN Len(labels) ELSE -1,
           most_popular_authors |->
               IF attaches_authors(f)
               THEN SortDesc(group_sums(
                        df,
                        labels \o (IF \E i \in 1..Len(df) : df[i].authors_set = NullText
                                   THEN <<NullText>> ELSE <<>>),
                        "authors_set"))
               ELSE <<>>,
           best_buyer_aliases |->
               IF user_rev = <<>> THEN NoBuyer
               ELSE [user_key |-> user_rev[1].key,
                     total_revenue |-> user_rev[1].paid_price,
                     aliases |-> SortedTexts(Range(aliases_of(df, user_rev[1].key)))]])))

\* steps 3 to 9 of process_dataset on a cleaned orders frame
process_metrics(f, frame) ==
    With(Map(frame, reprice), LAMBDA priced :
      With(attach_rows(priced, IF attaches_authors(f) THEN f.books.rows ELSE <<>>),
           LAMBDA df : metrics_of(f, df)))

\* process_dataset(folder_path): df is the copy of what load_and_clean
\* returned; df.columns exists on a DataFrame only
process_dataset(f) ==
    With(load_and_clean(f), LAMBDA df :
      IF df.raised # "none" THEN Raised(df.raised)
      ELSE IF df.type # "DataFrame" THEN Raised("AttributeError")
      ELSE process_metrics(f, df.orders))

\* render_dataset(name, folder): st.error on any exception, else the page
render_dataset(f) ==
    With(process_dataset(f), LAMBDA result :
      IF result.raised # "none"
      THEN [shown |-> "error", message |-> result.raised]
      ELSE [shown |-> "page", message |-> "none"])

-----------------------------------------------------------------------------
(* Inputs                                                                  *)

MaxOrders == 2

MaxUsers == 2

MaxBooks == 2

NumDates == 7

\* all sequences over S of length at most n
RECURSIVE SeqsUpTo(_, _)
SeqsUpTo(S, n) ==
    IF n = 0 THEN {<<>>}
    ELSE LET shorter == SeqsUpTo(S, n - 1)
         IN  shorter \cup {Append(q, x) : q \in {r \in shorter : Len(r) = n - 1}, x \in S}

Instant(d, t) == [date |-> d, time |-> t]

\* a text both parses read the same way
TsPlain(d) == [isna |-> FALSE, strict |-> Instant(d, "09:00"), dayfirst |-> Instant(d, "09:00")]

\* a missing cell; a text no parse reads; a text only the day-first parse
\* reads; a text like 03/04/2024 the two parses read as different days
TsInputs ==
    { [isna |-> TRUE, strict |-> NaT, dayfirst |-> NaT],
      [isna |-> FALSE, strict |-> NaT, dayfirst |-> NaT],
      [isna |-> FALSE, strict |-> NaT, dayfirst |-> Instant(2, "17:30")],
      [isna |-> FALSE, strict |-> Instant(1, "09:00"), dayfirst |-> Instant(2, "09:00")],
      TsPlain(1) }

Usd1 == <<"$", "1">>

Usd2 == <<"2", " ", "U", "S", "D">>

Eur1 == <<"1">>

NoDigits == <<"n", "/", "a">>

Order(u, b, q, p, t) ==
    [user_id |-> u, book_id |-> b, quantity |-> q, unit_price |-> p, timestamp |-> t]

NoBooks == [file |-> "none", idCol |-> FALSE, authorCol |-> "none", rows |-> <<>>]

\* the rows of an orders file: the id column numbers them
Numbered(rows) ==
    [i \in 1..Len(rows) |->
       [id |-> i, user_id |-> rows[i].user_id, book_id |-> rows[i].book_id,
        quantity |-> rows[i].quantity, unit_price |-> rows[i].unit_price,
        timestamp |-> rows[i].timestamp]]

Folder(of, uf, cols, ec, users, books, orders) ==
    [ordersFile |-> of, usersFile |-> uf, ordersCols |-> cols, emailCol |-> ec,
     users |-> users, books |-> books, orders |-> Numbered(orders)]

Emails == { <<"a", "@", "x">>, <<"b", "@", "x">>, NullText }

\* user directories of at most n users, the k-th with id k
RECURSIVE UserDirs(_)
UserDirs(n) ==
    IF n = 0 THEN {<<>>}
    ELSE UserDirs(n - 1)
           \cup {Append(d, [id |-> n, email |-> e]) :
                   d \in {u \in UserDirs(n - 1) : Len(u) = n - 1}, e \in Emails}

\* folders that differ in which files and columns they hold
StructureFolders ==
    { Folder(of, uf, cols, ec, users, NoBooks, orders) :
        of \in BOOLEAN, uf \in BOOLEAN,
        cols \in {required_cols, required_cols \ {"timestamp"}},
        ec \in BOOLEAN,
        users \in { <<>>, <<[id |-> 1, email |-> <<"a", "@", "x">>]>>,
                    <<[id |-> 1, email |-> <<"a", "@", "x">>], [id |-> 1, email |-> NullText]>> },
        orders \in SeqsUpTo({Order(u, 0, <<"1">>, Usd1, TsPlain(1)) : u \in 1..2}, MaxOrders) }

\* folders that differ in the user directory and in who bought what
IdentityFolders ==
    { Folder(TRUE, TRUE, required_cols, Len(users) > 0, users, NoBooks, orders) :
        users \in UserDirs(MaxUsers),
        orders \in SeqsUpTo({Order(u, 0, <<"1">>, p, TsPlain(1)) :
                               u \in 1..3, p \in {Usd1, NoDigits}}, MaxOrders) }

\* folders that differ in the timestamp, price and quantity cells
CellFolders ==
    { Folder(TRUE, TRUE, required_cols, FALSE, <<>>, NoBooks, orders) :
        orders \in SeqsUpTo({Order(1, 0, <<"1">>, Usd1, t) : t \in TsInputs}
                             \cup {Order(1, 0, q, p, TsPlain(1)) :
                                     q \in {<<"1">>, <<"2">>, <<"x">>, <<"-", "1">>, NullText},
                                     p \in {Usd1, Eur1, NoDigits}}, MaxOrders) }

\* the orders of one calendar date: one without a price, one of 1 USD, or
\* one without a price and one of 2 USD
DayOrders(d) ==
    { <<Order(1, 0, <<"1">>, NoDigits, TsPlain(d))>>,
      <<Order(1, 0, <<"1">>, Usd1, TsPlain(d))>>,
      <<Order(2, 0, <<"1">>, NoDigits, TsPlain(d)), Order(1, 0, <<"1">>, Usd2, TsPlain(d))>> }

RECURSIVE DaySeqs(_)
DaySeqs(n) ==
    IF n = 0 THEN {<<>>}
    ELSE {day \o rest : day \in DayOrders(n), rest \in DaySeqs(n - 1)}

\* folders that differ in which dates have orders with a valid price
DayFolders ==
    { Folder(TRUE, TRUE, required_cols, FALSE, <<>>, NoBooks, orders) :
        orders \in DaySeqs(NumDates) }

AuthorTexts ==
    { <<"A", ",", " ", "B">>, <<"B", " ", "&", " ", "A">>,
      <<"A", " ", "a", "n", "d", " ", "A">>, NullText }

BookRows == [id : 1..2, authors : AuthorTexts]

BookFiles ==
    { [file |-> "books.yaml", idCol |-> TRUE, authorCol |-> "author"],
      [file |-> "books.csv", idCol |-> TRUE, authorCol |-> "authors"],
      [file |-> "books.csv", idCol |-> FALSE, authorCol |-> "authors"],
      [file |-> "books.yaml", idCol |-> TRUE, authorCol |-> "none"] }

\* folders that differ in the book directory and in which book was bought
AuthorFolders ==
    { Folder(TRUE, TRUE, required_cols, FALSE, <<>>,
             [file |-> bf.file, idCol |-> bf.idCol, authorCol |-> bf.authorCol,
              rows |-> rows],
             <<Order(1, b, <<"1">>, p, TsPlain(1)), Order(1, 1, <<"1">>, Usd2, TsPlain(1))>>) :
        bf \in BookFiles, rows \in SeqsUpTo(BookRows, MaxBooks),
        b \in 0..2, p \in {Usd1, NoDigits} }

NotRun == [raised |-> "not run", type |-> "none"]

NoScreen == [shown |-> "nothing", message |-> "none"]

NoPrice == [done |-> FALSE, currency |-> "none", usd |-> NaN]

-----------------------------------------------------------------------------
(* The pipeline: one entry point runs on the folder                        *)

Init ==
    /\ \/ folder \in StructureFolders
       \/ folder \in IdentityFolders
       \/ folder \in CellFolders
       \/ folder \in DayFolders
       \/ folder \in AuthorFolders
    /\ called = "none"
    /\ loadResult = NotRun
    /\ processResult = NotRun
    /\ screen = NoScreen
    /\ raw = <<>>
    /\ priceResult = [load_clean |-> NoPrice, analysis |-> NoPrice]

LoadAndClean ==
    /\ called = "none"
    /\ called' = "load_and_clean"
    /\ loadResult' = load_and_clean(folder)
    /\ UNCHANGED <<folder, processResult, screen, raw, priceResult>>

ProcessDataset ==
    /\ called = "none"
    /\ called' = "process_dataset"
    /\ processResult' = process_dataset(folder)
    /\ UNCHANGED <<folder, loadResult, screen, raw, priceResult>>

RenderDataset ==
    /\ called = "none"
    /\ called' = "render_dataset"
    /\ screen' = render_dataset(folder)
    /\ UNCHANGED <<folder, loadResult, processResult, raw, priceResult>>

Next == LoadAndClean \/ ProcessDataset \/ RenderDataset

Spec == Init /\ [][Next]_vars

-----------------------------------------------------------------------------
(* The price normalizers on one raw text                                   *)

EmptyFolder == Folder(FALSE, FALSE, {}, FALSE, <<>>, NoBooks, <<>>)

InitPrice ==
    /\ raw \in PriceTexts \cup {NullText}
    /\ priceResult = [load_clean |-> NoPrice, analysis |-> NoPrice]
    /\ folder = EmptyFolder
    /\ called = "none"
    /\ loadResult = NotRun
    /\ processResult = NotRun
    /\ screen = NoScreen

HasText(value) == value # NullText /\ Strip(value) # <<>>

PriceToUsd ==
    /\ ~priceResult.load_clean.done
    /\ priceResult' = [priceResult EXCEPT !.load_clean =
           [done |-> TRUE,
            currency |-> IF HasText(raw) THEN price_currency(Strip(raw)) ELSE "none",
            usd |-> price_to_usd(raw)]]
    /\ UNCHANGED <<folder, called, loadResult, processResult, screen, raw>>

ParsePriceToUsd ==
    /\ ~priceResult.analysis.done
    /\ priceResult' = [priceResult EXCEPT !.analysis =
           [done |-> TRUE,
            currency |-> IF HasText(raw) THEN parse_price_currency(Strip(raw)) ELSE "none",
            usd |-> _parse_price_to_usd(raw)]]
    /\ UNCHANGED <<folder, called, loadResult, processResult, screen, raw>>

NextPrice == PriceToUsd \/ ParsePriceToUsd

SpecPrice == InitPrice /\ [][NextPrice]_vars

-----------------------------------------------------------------------------
(* Properties                                                              *)

\* the folder has what load_and_clean needs to get through
Loadable(f) ==
    /\ f.ordersFile
    /\ f.usersFile
    /\ required_cols \subseteq f.ordersCols
    /\ ~merge_not_m1(f)

Loaded == called = "load_and_clean" /\ loadResult.raised = "none"

MetricKeys ==
    {"top5_days", "unique_users", "unique_author_sets", "most_popular_authors",
     "best_buyer_aliases"}

\* C1: whenever load_and_clean loads the folder without raising,
\* process_dataset on that folder returns, and what it returns holds the five
\* metrics.
C1_ProcessReturnsMetrics ==
    (called = "process_dataset" /\ load_and_clean(folder).raised = "none")
        => /\ processResult.raised = "none"
           /\ MetricKeys \subseteq DOMAIN processResult

\* the currency the price text is in: USD when it holds "usd" in any case or
\* a dollar sign, whatever else it holds, and EUR otherwise
StatedCurrency(s) ==
    IF \/ \E i \in 1..Len(s) : s[i] = "$"
       \/ \E i \in 1..(Len(s) - 2) :
             /\ s[i] \in {"u", "U"}
             /\ s[i + 1] \in {"s", "S"}
             /\ s[i + 2] \in {"d", "D"}
    THEN "USD" ELSE "EUR"

\* C2: each price normalizer takes a price text to be in USD when it holds
\* "usd" (any case) or "$", also next to a euro marker, and in EUR otherwise,
\* also when it holds no currency marker at all.
C2_CurrencyDetection ==
    /\ (priceResult.load_clean.done /\ HasText(raw))
           => priceResult.load_clean.currency = StatedCurrency(Strip(raw))
    /\ (priceResult.analysis.done /\ HasText(raw))
           => priceResult.analysis.currency = StatedCurrency(Strip(raw))

\* C3: each price normalizer returns a USD amount unchanged and an EUR
\* amount multiplied by the one rate 1.08.
C3_OneFixedRate ==
    /\ (priceResult.load_clean.done /\ priceResult.load_clean.usd # NaN)
           => priceResult.load_clean.usd =
                  IF priceResult.load_clean.currency = "USD"
                  THEN price_amount(raw) * 100
                  ELSE price_amount(raw) * EUR_TO_USD
    /\ (priceResult.analysis.done /\ priceResult.analysis.usd # NaN)
           => priceResult.analysis.usd =
                  IF priceResult.analysis.currency = "USD"
                  THEN parse_price_amount(raw) * 100
                  ELSE parse_price_amount(raw) * EUR_TO_USD

\* C4: a folder with an orders file and no users file loads without raising,
\* and every order's buyer key is its stringified user id.
C4_LoadsWithoutUsers ==
    (/\ called = "load_and_clean"
     /\ folder.ordersFile
     /\ ~folder.usersFile
     /\ required_cols \subseteq folder.ordersCols)
        => /\ loadResult.raised = "none"
           /\ \A i \in 1..Len(loadResult.orders) :
                 loadResult.orders[i].user_key = Str(loadResult.orders[i].user_id)

\* a price text without any digit
NoDigit(text) == text # NullText /\ \A i \in 1..Len(text) : text[i] \notin Digits

ZeroIfNa(v) == IF v = NaN THEN 0 ELSE v

RECURSIVE SumInts(_)
SumInts(q) == IF q = <<>> THEN 0 ELSE q[1] + SumInts(Tail(q))

\* the total of the paid amounts of the rows that satisfy P, a missing paid
\* amount counted as zero
ZeroFilledTotal(rows, P(_)) ==
    SumInts(Map(SelectSeq(rows, P), LAMBDA r : ZeroIfNa(r.paid_price)))

\* how many books of the directory have this id and this label
BooksWith(f, id, label) ==
    Cardinality({b \in 1..Len(f.books.rows) :
                   /\ f.books.rows[b].id = id
                   /\ author_set(f.books.rows[b].authors) = label})

\* C5: a price text without digits does not abort the load; its row stays in
\* the unified table with a missing price and paid amount; every reported sum
\* (daily revenue, best buyer's total, author-set totals) is present and is
\* the total of its group with the missing paid amounts counted as zero, and
\* a date or buyer with a valid paid amount is not lost to such a row.
C5_NoDigitsCountsAsZero ==
    (called = "load_and_clean" /\ Loadable(folder))
        => /\ loadResult.raised = "none"
           /\ \A i \in 1..Len(folder.orders) :
                 (/\ NoDigit(folder.orders[i].unit_price)
                  /\ parse_timestamp(folder.orders[i].timestamp) # NaT)
                     => \E j \in 1..Len(loadResult.orders) :
                           /\ loadResult.orders[j].id = folder.orders[i].id
                           /\ loadResult.orders[j].unit_price_usd = NaN
                           /\ loadResult.orders[j].paid_price = NaN
           /\ \A k \in 1..Len(loadResult.top5_days) :
                 /\ loadResult.top5_days[k].paid_price # NaN
                 /\ loadResult.top5_days[k].paid_price =
                        ZeroFilledTotal(loadResult.orders,
                            LAMBDA r : r.date = loadResult.top5_days[k].date)
           /\ \A j \in 1..Len(loadResult.orders) :
                 (loadResult.orders[j].paid_price # NaN /\ Len(loadResult.top5_days) < 5)
                     => \E k \in 1..Len(loadResult.top5_days) :
                           loadResult.top5_days[k].date = loadResult.orders[j].date
           /\ (\E j \in 1..Len(loadResult.orders) : loadResult.orders[j].paid_price # NaN)
                  => loadResult.best_buyer # NoBuyer
           /\ loadResult.best_buyer # NoBuyer
                  => /\ loadResult.best_buyer.total_revenue # NaN
                     /\ loadResult.best_buyer.total_revenue =
                            ZeroFilledTotal(loadResult.orders,
                                LAMBDA r : r.user_key = loadResult.best_buyer.user_key)
           /\ \A k \in 1..Len(loadResult.most_popular_authors) :
                 /\ loadResult.most_popular_authors[k].paid_price # NaN
                 /\ loadResult.most_popular_authors[k].paid_price =
                        SumInts(Map(loadResult.orders, LAMBDA r :
                            ZeroIfNa(r.paid_price)
                              * BooksWith(folder, r.book_id,
                                          loadResult.most_popular_authors[k].author_set)))

\* a loaded table where an order without digits in its price shares its date,
\* its buyer and its book with an order that has a price, and that date, buyer
\* and author set are reported
C5_Witness ==
    /\ Loaded
    /\ \E j, v \in 1..Len(loadResult.orders) :
          /\ NoDigit(loadResult.orders[j].unit_price)
          /\ loadResult.orders[j].paid_price = NaN
          /\ loadResult.orders[v].paid_price # NaN
          /\ loadResult.orders[v].date = loadResult.orders[j].date
          /\ loadResult.orders[v].user_key = loadResult.orders[j].user_key
          /\ loadResult.best_buyer.user_key = loadResult.orders[j].user_key
          /\ \E k \in 1..Len(loadResult.top5_days) :
                loadResult.top5_days[k].date = loadResult.orders[j].date
          /\ \E k \in 1..Len(loadResult.most_popular_authors) :
                BooksWith(folder, loadResult.orders[j].book_id,
                          loadResult.most_popular_authors[k].author_set) > 0

\* the buyer key the directory gives a user id: its email when the directory
\* has one that is not missing, else the stringified id
StatedKey(f, user_id) ==
    IF /\ f.emailCol
       /\ \E u \in 1..Len(f.users) : f.users[u].id = user_id /\ f.users[u].email # NullText
    THEN f.users[CHOOSE u \in 1..Len(f.users) : f.users[u].id = user_id].email
    ELSE Str(user_id)

\* C6: every order's buyer key is the directory's email for its user id when
\* present and not missing, else str(user_id); the alias list reported for the
\* best buyer is the sorted list of the distinct stringified user ids of the
\* orders with that key.
C6_IdentityResolution ==
    Loaded
        => /\ \A j \in 1..Len(loadResult.orders) :
                 loadResult.orders[j].user_key =
                     StatedKey(folder, loadResult.orders[j].user_id)
           /\ loadResult.best_buyer # NoBuyer
                  => loadResult.best_buyer.aliases =
                         SortedTexts({Str(loadResult.orders[j].user_id) :
                             j \in {n \in 1..Len(loadResult.orders) :
                                      loadResult.orders[n].user_key
                                          = loadResult.best_buyer.user_key}})

\* the rows q with rows i and j exchanged
Swapped(q, i, j) ==
    [k \in 1..Len(q) |-> IF k = i THEN q[j] ELSE IF k = j THEN q[i] ELSE q[k]]

\* C7: the best buyer (key, total revenue, alias list) does not depend on the
\* order of the order rows: exchanging any two rows of the orders file leaves
\* it as it is.  (Exchanges of two rows generate every reordering.)
C7_BestBuyerOrderInvariant ==
    Loaded
        => \A i, j \in 1..Len(folder.orders) :
              i < j => load_and_clean([folder EXCEPT !.orders = Swapped(@, i, j)]).best_buyer
                           = loadResult.best_buyer

\* C8: the author metrics use the normalized label (names split on comma,
\* "&" and "and", de-duplicated, sorted, joined with "; "): the number of
\* unique author sets counts the distinct normalized labels of the book
\* directory, and every ranked author set is the normalized label of a book.
C8_AuthorSetLabel ==
    (Loaded /\ loadResult.unique_author_sets # -1)
        => /\ loadResult.unique_author_sets =
                  Cardinality({_normalize_authors(folder.books.rows[b].authors) :
                                  b \in 1..Len(folder.books.rows)} \ {NullText})
           /\ \A k \in 1..Len(loadResult.most_popular_authors) :
                 \E b \in 1..Len(folder.books.rows) :
                    loadResult.most_popular_authors[k].author_set
                        = _normalize_authors(folder.books.rows[b].authors)

\* the dates of the unified table that have a valid paid amount
ValidDates ==
    {loadResult.orders[j].date :
        j \in {n \in 1..Len(loadResult.orders) : loadResult.orders[n].paid_price # NaN}}

\* what C9 and its amendment share: only valid dates, one row a date, at most
\* five rows, fewer only when fewer valid dates exist
TopDaysShape ==
    /\ \A k \in 1..Len(loadResult.top5_days) : loadResult.top5_days[k].date \in ValidDates
    /\ \A k, l \in 1..Len(loadResult.top5_days) :
          k # l => loadResult.top5_days[k].date # loadResult.top5_days[l].date
    /\ Len(loadResult.top5_days) <= 5
    /\ Len(loadResult.top5_days) < 5 => Cardinality(ValidDates) < 5

StatedInstant(ts) ==
    IF ts.isna THEN NaT
    ELSE IF ts.strict # NaT THEN ts.strict
    ELSE ts.dayfirst

\* C10: the load never aborts on a timestamp; the unified table holds, in
\* file order, exactly the orders whose timestamp the two-pass policy parses
\* (the default parse when it succeeds, else the day-first parse), each with
\* that instant and its date, none of them missing.
C10_TimestampFallback ==
    (called = "load_and_clean" /\ Loadable(folder))
        => /\ loadResult.raised = "none"
           /\ LET kept == SelectSeq(folder.orders,
                              LAMBDA o : StatedInstant(o.timestamp) # NaT)
              IN  /\ Len(loadResult.orders) = Len(kept)
                  /\ \A j \in 1..Len(kept) :
                        /\ loadResult.orders[j].id = kept[j].id
                        /\ loadResult.orders[j].timestamp = StatedInstant(kept[j].timestamp)
                        /\ loadResult.orders[j].timestamp # NaT
                        /\ loadResult.orders[j].date = loadResult.orders[j].timestamp.date
                        /\ loadResult.orders[j].date > 0

\* a load that kept an order whose two parses differ, with the default
\* parse's instant, and dropped an order that no parse reads
C10_Witness ==
    /\ Loaded
    /\ \E i \in 1..Len(folder.orders) :
          /\ folder.orders[i].timestamp.strict # NaT
          /\ folder.orders[i].timestamp.dayfirst # NaT
          /\ folder.orders[i].timestamp.dayfirst # folder.orders[i].timestamp.strict
          /\ \E j \in 1..Len(loadResult.orders) :
                /\ loadResult.orders[j].id = folder.orders[i].id
                /\ loadResult.orders[j].timestamp = folder.orders[i].timestamp.strict
    /\ \E i \in 1..Len(folder.orders) :
          /\ ~folder.orders[i].timestamp.isna
          /\ folder.orders[i].timestamp.strict = NaT
          /\ folder.orders[i].timestamp.dayfirst = NaT
          /\ \A j \in 1..Len(loadResult.orders) :
                loadResult.orders[j].id # folder.orders[i].id

\* the price text with the cent sign and "," replaced by "." and every
\* character that is neither a digit nor a dot removed
StatedDigitsAndDots(s) ==
    SelectSeq(Replace(Replace(s, <<"CENT">>, <<".">>), <<",">>, <<".">>),
              LAMBDA c : c \in Digits \cup {"."})

DotsOf(t) == {i \in 1..Len(t) : t[i] = "."}

\* the amount, in units of 10^-FracDigits, of a text of digits and dots with
\* at least one dot: the digits before the last dot are the integer part,
\* the digits after it the fractional part
StatedAmount(t) ==
    LET last == CHOOSE i \in DotsOf(t) : \A j \in DotsOf(t) : j <= i
        int  == SelectSeq(SubSeq(t, 1, last - 1), LAMBDA c : c \in Digits)
        frac == SubSeq(t, last + 1, Len(t))
        kept == SubSeq(frac, 1, IF Len(frac) < FracDigits THEN Len(frac) ELSE FracDigits)
    IN  DigitsToInt(int) * Pow10(FracDigits)
          + DigitsToInt(kept) * Pow10(FracDigits - Len(kept))

\* the price text holds a number written with thousands separators
HasThousands(value) ==
    /\ HasText(value)
    /\ Cardinality(DotsOf(StatedDigitsAndDots(Strip(value)))) > 1

\* C11: when more than one dot remains in the cleaned price text, each price
\* normalizer reads the digits before the last dot as the integer part and
\* the digits after it as the fractional part, and converts that amount at
\* the rate of the currency it detected ('$1,234.56' gives 1234.56).
C11_ThousandsSeparators ==
    /\ (priceResult.load_clean.done /\ HasThousands(raw))
           => priceResult.load_clean.usd =
                  StatedAmount(StatedDigitsAndDots(Strip(raw)))
                    * (IF priceResult.load_clean.currency = "USD" THEN 100
                       ELSE EUR_TO_USD)
    /\ (priceResult.analysis.done /\ HasThousands(raw))
           => priceResult.analysis.usd =
                  StatedAmount(StatedDigitsAndDots(Strip(raw)))
                    * (IF priceResult.analysis.currency = "EUR" THEN analysis_EUR_TO_USD
                       ELSE 100)

\* the quantity cell is missing: null, or not the text of a number
QuantityMissing(t) ==
    \/ t = NullText
    \/ t = <<>>
    \/ \E i \in 1..Len(t) : t[i] \notin Digits \cup {"-"}

\* the raw order of the file that carries this identifier
RawOrder(f, id) == f.orders[CHOOSE i \in 1..Len(f.orders) : f.orders[i].id = id]

\* C12: in the unified table an order whose raw quantity is missing (null
\* or non-numeric) has quantity 1 and a paid amount equal to its unit price
\* in USD, and no order has a negative quantity.
C12_QuantityDefault ==
    Loaded =>
        \A j \in 1..Len(loadResult.orders) :
            /\ loadResult.orders[j].quantity >= 0
            /\ QuantityMissing(RawOrder(folder, loadResult.orders[j].id).quantity)
                   => /\ loadResult.orders[j].quantity = 1
                      /\ loadResult.orders[j].paid_price
                             = loadResult.orders[j].unit_price_usd

=============================================================================
